---- MODULE Spec2Model ----
(***************************************************************************)
(* A model of github-cms-sync: the sync pipeline that filters GitHub       *)
(* repositories, collects their details, enriches them through one batch   *)
(* request to a generative service, ranks them, and writes them to a       *)
(* versioned CMS entry with a conditional PUT, followed by a publish and a *)
(* best-effort build-log append.                                           *)
(*                                                                         *)
(* Strings that the code inspects character by character (repository and   *)
(* user names) are sequences of one-character strings.  The generated      *)
(* fields of a project (name, descriptions, technologies, highlights,      *)
(* category, gradient) are all copied from the same response object in the *)
(* same way; the model carries two of them, Name and Description.          *)
(***************************************************************************)
EXTENDS Integers, Sequences, FiniteSets, TLC

\* ---------------------------------------------------------------- bounds
MaxRepos == 2         \* length of a repository list given to FilterRepos
MaxProjects == 3      \* length of a project list given to ApplyFeatured
MaxTime == 2          \* last-activity timestamps are 1..MaxTime
MaxCount == 3         \* MAX_FEATURED and MAX_PROJECTS range over 0..MaxCount
MaxRaw == 2           \* length of the RawProject list given to Enrich
MaxData == 3          \* length of the array in a response of the service
MaxAudit == 8         \* length of the stored build log
cfgMaxFeatured == 1   \* MAX_FEATURED of the pipeline runs
cfgMaxTotal == 2      \* MAX_PROJECTS of the pipeline runs
MaxEntities == 6      \* length of the repository list given to fetchDetails

\* ------------------------------------------------------- program constants
maxRetries == 3       \* enricher: retries after the first attempt
semSize == 5          \* syncer: capacity of the channel sem of fetchDetails

\* ----------------------------------------------------------- small helpers
Min(a, b) == IF a <= b THEN a ELSE b

SeqsUpTo(S, n) == UNION {[1..k -> S] : k \in 0..n}

Range(s) == {s[i] : i \in DOMAIN s}

\* ================================================================ mapper
\* repository and user names, some equal up to case
Names == {<<"a">>, <<"A">>, <<"b">>, <<"a", "b">>, <<"A", "b">>}

\* strings.ToLower, character by character
LowerChar(c) ==
  CASE c = "A" -> "a"
    [] c = "B" -> "b"
    [] OTHER -> c

ToLower(s) == [i \in DOMAIN s |-> LowerChar(s[i])]

\* github.Repo: the fields the pipeline reads
HTMLURLOf(name) == <<"/">> \o name

Repo(name, fork, archived, pushedAt) ==
  [Name |-> name, HTMLURL |-> HTMLURLOf(name), Fork |-> fork,
   Archived |-> archived, PushedAt |-> pushedAt]

Repos == {Repo(n, f, a, 1) : n \in Names, f \in BOOLEAN, a \in BOOLEAN}

\* the loop of FilterRepos from index i on, appending to filtered
RECURSIVE FilterLoop(_, _, _, _)
FilterLoop(rs, profileRepo, i, acc) ==
  IF i > Len(rs) THEN acc
  ELSE LET r == rs[i] IN
       IF r.Fork \/ r.Archived THEN FilterLoop(rs, profileRepo, i + 1, acc)
       ELSE IF ToLower(r.Name) = profileRepo
            THEN FilterLoop(rs, profileRepo, i + 1, acc)
            ELSE FilterLoop(rs, profileRepo, i + 1, Append(acc, r))

\* a FilterRepos that compares the name with the user name as written
FilterReposCaseSensitive(rs, user) == FilterLoop(rs, user, 1, <<>>)

FilterRepos(rs, user) == FilterLoop(rs, ToLower(user), 1, <<>>)

\* ToRawProject: languages and readme feed the prompt only
ToRawProject(repo, languages, readme) ==
  [Name |-> repo.Name, Slug |-> repo.Name, GitHubURL |-> repo.HTMLURL,
   Languages |-> languages, ReadmeRaw |-> readme, PushedAt |-> repo.PushedAt]

\* ============================================================= heuristic
\* time.Time.After on the model's integer timestamps
After(t, u) == t > u

Swap(s, i, j) == [s EXCEPT ![i] = s[j], ![j] = s[i]]

\* sort.Slice on a slice of at most 12 elements is an insertion sort:
\* element i sinks while less(data[j], data[j-1])
RECURSIVE Sink(_, _)
Sink(s, j) ==
  IF j > 1 /\ After(s[j].PushedAt, s[j - 1].PushedAt)
  THEN Sink(Swap(s, j, j - 1), j - 1)
  ELSE s

RECURSIVE InsertionSort(_, _)
InsertionSort(s, i) ==
  IF i > Len(s) THEN s ELSE InsertionSort(Sink(s, i), i + 1)

SortByPushedAt(ps) == InsertionSort(ps, 2)

\* an ApplyFeatured whose flag loop is off by one (i <= maxFeatured)
ApplyFeaturedOffByOne(ps, maxFeatured, maxTotal) ==
  LET sorted == SortByPushedAt(ps)
      cut == IF Len(sorted) > maxTotal THEN SubSeq(sorted, 1, maxTotal) ELSE sorted
  IN [i \in DOMAIN cut |-> [cut[i] EXCEPT !.Featured = (i - 1 <= maxFeatured)]]

\* indices are 1-based here: Go's index i is i - 1
ApplyFeatured(ps, maxFeatured, maxTotal) ==
  LET sorted == SortByPushedAt(ps)
      cut == IF Len(sorted) > maxTotal THEN SubSeq(sorted, 1, maxTotal) ELSE sorted
  IN [i \in DOMAIN cut |-> [cut[i] EXCEPT !.Featured = (i - 1 < maxFeatured)]]

\* contentful.Project as Enrich builds it
Project(name, slug, description, url, pushedAt) ==
  [Name |-> name, Slug |-> slug, Description |-> description,
   GithubURL |-> url, Featured |-> FALSE, PushedAt |-> pushedAt]

\* ============================================================== enricher
\* A response text is a sequence of tokens: the fence markers, the JSON
\* punctuation, the word null, one token per JSON object of the array, and
\* "x" for anything that is not JSON.  The fence markers are written "~~~json"
\* and "~~~" (a backquote cannot occur in a TLA+ string).
Tok(t) == [t |-> t, Name |-> "", Description |-> ""]
Obj(name, description) == [t |-> "{}", Name |-> name, Description |-> description]

HasPrefix(s, t) == Len(s) >= 1 /\ s[1].t = t
HasSuffix(s, t) == Len(s) >= 1 /\ s[Len(s)].t = t
TrimPrefix(s, t) == IF HasPrefix(s, t) THEN SubSeq(s, 2, Len(s)) ELSE s
TrimSuffix(s, t) == IF HasSuffix(s, t) THEN SubSeq(s, 1, Len(s) - 1) ELSE s

stripMarkdownFences(s) ==
  LET s1 == IF HasPrefix(s, "~~~json") THEN TrimPrefix(s, "~~~json")
            ELSE IF HasPrefix(s, "~~~") THEN TrimPrefix(s, "~~~")
            ELSE s
  IN TrimSuffix(s1, "~~~")

\* json.Unmarshal into []enrichedData: null gives a nil list, an array of
\* objects gives one entry per object, anything else is an error
UnmarshalOk(s) ==
  \/ (Len(s) = 1 /\ s[1].t = "null")
  \/ /\ Len(s) >= 2 /\ s[1].t = "[" /\ s[Len(s)].t = "]"
     /\ \A i \in 2..(Len(s) - 1) : s[i].t = "{}"

Unmarshal(s) ==
  IF Len(s) = 1 THEN <<>>
  ELSE [i \in 1..(Len(s) - 2) |-> [Name |-> s[i + 1].Name,
                                   Description |-> s[i + 1].Description]]

\* an error of the service is the sequence of words of its message
Contains(text, word) == \E i \in DOMAIN text : text[i] = word

\* a test that takes every error for a rate limit
IsRateLimitAny(text) == TRUE

IsRateLimit(text) == Contains(text, "429") \/ Contains(text, "RESOURCE_EXHAUSTED")

\* the error values Enrich returns
Err(kind, n, cause) == [kind |-> kind, n |-> n, cause |-> cause]
NoErr == Err("nil", 0, <<>>)

\* fmt.Errorf("prefix: %w", err)
Wrap(prefix, err) == Err(prefix, err.n, <<err.kind>> \o err.cause)

\* the positional matching loop of Enrich, from Go index i - 1 on
RECURSIVE MatchLoop(_, _, _, _)
MatchLoop(raws, dataList, i, acc) ==
  IF i > Len(raws) THEN acc
  ELSE IF i - 1 >= Len(dataList) THEN MatchLoop(raws, dataList, i + 1, acc)
  ELSE MatchLoop(raws, dataList, i + 1,
         Append(acc, Project(dataList[i].Name, raws[i].Slug,
                             dataList[i].Description, raws[i].GitHubURL,
                             raws[i].PushedAt)))

\* a matching that pairs the entries from the end of the response
MatchFromEnd(raws, dataList) ==
  LET n == Min(Len(raws), Len(dataList)) IN
  [i \in 1..n |-> Project(dataList[Len(dataList) - n + i].Name, raws[i].Slug,
                          dataList[Len(dataList) - n + i].Description,
                          raws[i].GitHubURL, raws[i].PushedAt)]

MatchByPosition(raws, dataList) == MatchLoop(raws, dataList, 1, <<>>)

\* ================================================================= audit
serviceName == "github-cms-sync"
ownKeep == 2          \* own entries kept before the new one is appended
ownLimit == 3         \* own entries from which the cap applies

BuildLogEntry(service, timestamp, newAdded, total, status) ==
  [Service |-> service, Timestamp |-> timestamp, NewAdded |-> newAdded,
   TotalAfterSync |-> total, Status |-> status]

OwnEntries(entries) == SelectSeq(entries, LAMBDA e : e.Service = serviceName)
OtherEntries(entries) == SelectSeq(entries, LAMBDA e : e.Service # serviceName)

\* a cap that keeps the oldest entries instead of the most recent
AllLogEntriesKeepOldest(entries, logEntry) ==
  LET own == OwnEntries(entries)
      kept == IF Len(own) >= ownLimit THEN SubSeq(own, 1, ownKeep) ELSE own
  IN OtherEntries(entries) \o Append(kept, logEntry)

\* recordBuildLog: partition, cap, append
AllLogEntries(entries, logEntry) ==
  LET own == OwnEntries(entries)
      kept == IF Len(own) >= ownLimit
              THEN SubSeq(own, Len(own) - ownKeep + 1, Len(own)) ELSE own
  IN OtherEntries(entries) \o Append(kept, logEntry)

\* ============================================================ contentful
\* json.Marshal of a Project: PushedAt is tagged json:"-" and is not written
ToJSON(p) ==
  [Name |-> p.Name, Slug |-> p.Slug, Description |-> p.Description,
   GithubURL |-> p.GithubURL, Featured |-> p.Featured]

\* json.Unmarshal into a Project: PushedAt stays the zero time
FromJSON(j) ==
  [Name |-> j.Name, Slug |-> j.Slug, Description |-> j.Description,
   GithubURL |-> j.GithubURL, Featured |-> j.Featured, PushedAt |-> 0]

MarshalProjects(ps) == [i \in DOMAIN ps |-> ToJSON(ps[i])]
UnmarshalProjects(js) == [i \in DOMAIN js |-> FromJSON(js[i])]

\* The value of the content field: locale-wrapped (a map from locale to a
\* value) or not; a locale's value is a list of projects or something else.
ListValue(items) == [isList |-> TRUE, items |-> items]
NotAList == [isList |-> FALSE, items |-> <<>>]
LocaleWrapped(byLocale) == [wrapped |-> TRUE, locales |-> byLocale]
NotWrapped == [wrapped |-> FALSE, locales |-> <<>>]

\* a ProjectsResult, together with the error GetProjects returns with it
ProjectsResult(isNil, ps, id, version, fields, err) ==
  [isNil |-> isNil, Projects |-> ps, EntryID |-> id, Version |-> version,
   RawFields |-> fields, err |-> err]

NilResult(err) == ProjectsResult(TRUE, <<>>, "", 0, <<>>, err)

\* the decode of rawContent: marshal, then unmarshal into []Project
DecodeContent(e, rawContent) ==
  IF rawContent.isList
  THEN ProjectsResult(FALSE, UnmarshalProjects(rawContent.items),
                      e.ID, e.Version, e.Fields, NoErr)
  ELSE NilResult(Err("unmarshal projects", 0, <<>>))

\* a GetProjects that takes an entry without a content field for an error
NoContentIsError(e) == NilResult(Err("content field is missing", 0, <<>>))

\* GetProjects on an entry without a content field: no projects, no error
NoContentResult(e) == ProjectsResult(FALSE, <<>>, e.ID, e.Version, e.Fields, NoErr)

\* GetProjects from the fetched entry on.  The outcomes are a set: without
\* an en-US key the range over the locale map yields any one of its values.
GetProjectsFrom(e) ==
  IF "content" \notin DOMAIN e.Fields
  THEN {NoContentResult(e)}
  ELSE LET contentField == e.Fields["content"] IN
       IF ~contentField.wrapped
       THEN {ProjectsResult(FALSE, <<>>, e.ID, e.Version, e.Fields,
                            Err("content field is not locale-wrapped", 0, <<>>))}
       ELSE LET localeMap == contentField.locales IN
            IF "en-US" \in DOMAIN localeMap
            THEN {DecodeContent(e, localeMap["en-US"])}
            ELSE IF DOMAIN localeMap = {}
            THEN {ProjectsResult(FALSE, <<>>, e.ID, e.Version, e.Fields, NoErr)}
            ELSE {DecodeContent(e, localeMap[l]) : l \in DOMAIN localeMap}

\* a field map that carries the new collection and nothing else
UpdateFieldsContentOnly(res, ps) ==
  [k \in {"content"} |-> LocaleWrapped([l \in {"en-US"} |-> ListValue(MarshalProjects(ps))])]

\* a field map whose content keeps the locales read and sets en-US among them
UpdateFieldsKeepLocales(res, ps) ==
  LET old == IF "content" \in DOMAIN res.RawFields /\ res.RawFields["content"].wrapped
             THEN res.RawFields["content"].locales
             ELSE <<>>
  IN [k \in DOMAIN res.RawFields \cup {"content"} |->
        IF k = "content"
        THEN LocaleWrapped([l \in DOMAIN old \cup {"en-US"} |->
                              IF l = "en-US" THEN ListValue(MarshalProjects(ps))
                              ELSE old[l]])
        ELSE res.RawFields[k]]

\* the field map UpdateProjects sends: a copy of RawFields with content set
UpdateFields(res, ps) ==
  [k \in DOMAIN res.RawFields \cup {"content"} |->
     IF k = "content"
     THEN LocaleWrapped([l \in {"en-US"} |-> ListValue(MarshalProjects(ps))])
     ELSE res.RawFields[k]]

\* a version header taken from the store's current state, as a client that
\* re-reads the version right before writing would send
VersionHeaderFresh(res, current) == current.Version

\* the X-Contentful-Version header UpdateProjects sends
VersionHeader(res, current) == res.Version

\* the store's answer to a conditional PUT: 200 and the entry at the next
\* version, or 409 and the entry unchanged
PutStatus(e, version) == IF version = e.Version THEN 200 ELSE 409

PutEntry(e, fields, version) ==
  IF version = e.Version
  THEN [e EXCEPT !.Version = e.Version + 1, !.Fields = fields]
  ELSE e

\* the store's answer to a publish: version-checked, and it bumps the version
PublishStatus(e, id, version) ==
  IF id = e.ID /\ version = e.Version THEN 200 ELSE 409

PublishedEntry(e, id, version) ==
  IF id = e.ID /\ version = e.Version
  THEN [e EXCEPT !.Version = e.Version + 1, !.PublishedVersion = e.Version]
  ELSE e

\* GetEntry by id, as the store answers it: 200 with the entry, 404 when no
\* entry has that id, or another failure (500 stands for every status other
\* than 200 and 404, and for a request that did not get through)
GetEntryStatuses(e, entryID) == IF entryID = e.ID THEN {200, 500} ELSE {404, 500}

\* the statuses of the query by content type and sectionId
QueryStatuses == {200, 500}

\* findProjectsBySectionID: Items[0] of a 200 answer, an error otherwise
findProjectsBySectionID(e, sectionID, status) ==
  IF status # 200
  THEN [found |-> FALSE, err |-> Err("CMA query failed", status, <<>>)]
  ELSE IF e.Fields["sectionId"] # sectionID
  THEN [found |-> FALSE, err |-> Err("no siteSection entry found", 0, <<>>)]
  ELSE [found |-> TRUE, err |-> NoErr]

\* GetProjects, line 32: the fallback query is made on any error of GetEntry
FallsBack(getStatus) == getStatus # 200

\* GetProjects up to the entry: whether the query was made, whether an entry
\* was resolved, and the error returned when none was
ResolveEntry(e, entryID, getStatus, queryStatus) ==
  IF ~FallsBack(getStatus)
  THEN [queried |-> FALSE, found |-> TRUE, err |-> NoErr]
  ELSE LET q == findProjectsBySectionID(e, entryID, queryStatus)
       IN [queried |-> TRUE, found |-> q.found,
           err |-> IF q.found THEN NoErr ELSE Wrap("get projects entry", q.err)]

\* ================================================================ syncer
\* a publish with the version GetProjects read
PublishVersionRead(res, newVersion) == res.Version

\* Run, step 8: the version given to PublishEntry is the one UpdateProjects
\* returned
PublishVersion(res, newVersion) == newVersion

\* SyncStats
SyncStats(newAdded, total, status) ==
  [NewAdded |-> newAdded, Total |-> total, Status |-> status]

NoStats == SyncStats(0, 0, "")

\* the enrichment of one entity: a function of the entity alone
Generated(name) ==
  [Name |-> IF name = <<"a">> THEN "Alpha" ELSE IF name = <<"b">> THEN "Beta" ELSE "Other",
   Description |-> "d"]

\* the response array for a batch, one object per input in input order
GeneratedFor(raws) == [i \in DOMAIN raws |-> Generated(raws[i].Name)]

\* a Run that goes on to the next stage whatever the stage returned
StageAfterAlways(next, err) == next

\* a Run that reads the entry again after a failed update
StageAfterRetry(next, err) ==
  IF err = NoErr THEN next ELSE IF next = "publish" THEN "get" ELSE "exit"

\* a count of new entities that never goes below zero
CountDeltaClamped(total, before) == IF total > before THEN total - before ELSE 0

\* Run, the stats: NewAdded is len(projects) - len(result.Projects)
CountDelta(total, before) == total - before

\* a Run without the short-circuit
ShortCircuitNever(filtered) == FALSE

\* Run, step 2: with no repository left by the filter, Run returns at once
ShortCircuit(filtered) == Len(filtered) = 0

\* Run's error checks: on an error the run returns, else it goes on
StageAfter(next, err) == IF err = NoErr THEN next ELSE "exit"

\* a RunE that returns the error of the build-log recording
RunEReturnsAuditErr(auditErr) == auditErr

\* RunE after recordBuildLog: the recording returns nothing, RunE returns nil
RunEReturn(auditErr) == NoErr

\* ================================================================= state
VARIABLES
  fpc, fRepos, fUsername, fResult,                  \* a call of FilterRepos
  hpc, hProjects, maxFeatured, maxTotal, hResult,   \* a call of ApplyFeatured
  apc, aEntries, aLogEntry, allLogEntries,          \* the list recordBuildLog writes
  \* a call of Enrich: position, parameter, loop counter, the outcome of each
  \* call of the service so far, the locals response, lastErr and dataList,
  \* the returned list and error, and the context's cancellation
  epc, eProjects, attempt, callLog, response, lastErr, dataList, eResult, eErr,
  ctxDone,
  \* a call of fetchDetails: position of the caller and of each worker, the
  \* parameter, the channel sem (its length), the mutex (its holder, 0 when
  \* free), the WaitGroup counter, the shared slice, what a worker fetched
  \* and the slice value its append read, the returned list, the context's
  \* cancellation, and the entities whose fetches fail
  dpc, wpc, repos, sem, mu, wg, rawProjects, wRaw, appendBuf, dResult, dCtxDone,
  failLang, failReadme,
  \* the sync command, run twice against one store
  upstream,      \* the repositories GitHub lists for the user
  cfgEntryID,    \* CONTENTFUL_ENTRY_ID: the entry's id or its sectionId
  entry,         \* the projects entry in the store: ID, Version, Fields
  buildLog,      \* the build-log entry in the store (EntryID "" while absent)
  run,           \* per run: position and the locals of RunE, Run, recordBuildLog
  obs,           \* per run: what the run has called, sent and been answered
  lastWriter     \* the run whose PUT the store accepted last (0: none yet)

filterVars == <<fpc, fRepos, fUsername, fResult>>
featuredVars == <<hpc, hProjects, maxFeatured, maxTotal, hResult>>
auditVars == <<apc, aEntries, aLogEntry, allLogEntries>>
enrichVars == <<epc, eProjects, attempt, callLog, response, lastErr, dataList,
                eResult, eErr, ctxDone>>

fetchVars == <<dpc, wpc, repos, sem, mu, wg, rawProjects, wRaw, appendBuf, dResult,
               dCtxDone, failLang, failReadme>>

syncVars == <<upstream, cfgEntryID, entry, buildLog, run, obs, lastWriter>>

vars == <<filterVars, featuredVars, auditVars, enrichVars, fetchVars, syncVars>>

FilterIdle == fpc = "idle" /\ fRepos = <<>> /\ fUsername = <<>> /\ fResult = <<>>
FeaturedIdle ==
  hpc = "idle" /\ hProjects = <<>> /\ maxFeatured = 0 /\ maxTotal = 0 /\ hResult = <<>>
AuditIdle ==
  apc = "idle" /\ aEntries = <<>> /\ aLogEntry = <<>> /\ allLogEntries = <<>>
EnrichIdle ==
  /\ epc = "idle" /\ eProjects = <<>> /\ attempt = 0 /\ callLog = <<>>
  /\ response = <<>> /\ lastErr = <<>> /\ dataList = <<>> /\ eResult = <<>>
  /\ eErr = NoErr /\ ctxDone = FALSE
FetchIdle ==
  /\ dpc = "idle" /\ wpc = <<>> /\ repos = <<>> /\ sem = 0 /\ mu = 0 /\ wg = 0
  /\ rawProjects = <<>> /\ wRaw = <<>> /\ appendBuf = <<>> /\ dResult = <<>>
  /\ dCtxDone = FALSE /\ failLang = {} /\ failReadme = {}

SyncIdle ==
  /\ upstream = <<>> /\ cfgEntryID = "" /\ entry = <<>> /\ buildLog = <<>>
  /\ run = <<>> /\ obs = <<>> /\ lastWriter = 0

\* ---------------------------------------------------- FilterRepos, called
InitFilter ==
  /\ fpc = "call"
  /\ fRepos \in SeqsUpTo(Repos, MaxRepos)
  /\ fUsername \in Names
  /\ fResult = <<>>
  /\ FeaturedIdle /\ AuditIdle /\ EnrichIdle /\ SyncIdle /\ FetchIdle

CallFilterRepos ==
  /\ fpc = "call"
  /\ fResult' = FilterRepos(fRepos, fUsername)
  /\ fpc' = "ret"
  /\ UNCHANGED <<fRepos, fUsername, featuredVars, auditVars, enrichVars, syncVars, fetchVars>>

NextFilter == CallFilterRepos

SpecFilter == InitFilter /\ [][NextFilter]_vars

\* -------------------------------------------------- ApplyFeatured, called
\* Enrich returns every project with Featured false
EnrichedProjects ==
  {Project("n", n, "d", HTMLURLOf(n), t) : n \in {<<"a">>, <<"b">>}, t \in 1..MaxTime}

InitFeatured ==
  /\ hpc = "call"
  /\ hProjects \in SeqsUpTo(EnrichedProjects, MaxProjects)
  /\ maxFeatured \in 0..MaxCount
  /\ maxTotal \in 0..MaxCount
  /\ hResult = <<>>
  /\ FilterIdle /\ AuditIdle /\ EnrichIdle /\ SyncIdle /\ FetchIdle

CallApplyFeatured ==
  /\ hpc = "call"
  /\ hResult' = ApplyFeatured(hProjects, maxFeatured, maxTotal)
  /\ hpc' = "ret"
  /\ UNCHANGED <<hProjects, maxFeatured, maxTotal, filterVars, auditVars, enrichVars, syncVars, fetchVars>>

NextFeatured == CallApplyFeatured

SpecFeatured == InitFeatured /\ [][NextFeatured]_vars

\* --------------------------------- recordBuildLog: building allLogEntries
AuditServices == {serviceName, "cv-sync"}

\* a stored build log: entry i was appended at time i by some service
StoredLogs ==
  UNION {{[i \in 1..k |-> BuildLogEntry(f[i], i, 0, 0, "success")] :
            f \in [1..k -> AuditServices]} : k \in 0..MaxAudit}

InitAudit ==
  /\ apc = "call"
  /\ aEntries \in StoredLogs
  /\ aLogEntry = BuildLogEntry(serviceName, Len(aEntries) + 1, 1, 1, "success")
  /\ allLogEntries = <<>>
  /\ FilterIdle /\ FeaturedIdle /\ EnrichIdle /\ SyncIdle /\ FetchIdle

BuildAllLogEntries ==
  /\ apc = "call"
  /\ allLogEntries' = AllLogEntries(aEntries, aLogEntry)
  /\ apc' = "ret"
  /\ UNCHANGED <<aEntries, aLogEntry, filterVars, featuredVars, enrichVars, syncVars, fetchVars>>

NextAudit == BuildAllLogEntries

SpecAudit == InitAudit /\ [][NextAudit]_vars

\* ----------------------------------------------------------- Enrich, run
RawInputs ==
  {ToRawProject(Repo(<<"a">>, FALSE, FALSE, 1), <<"Go">>, "readme"),
   ToRawProject(Repo(<<"b">>, FALSE, FALSE, 2), <<>>, "")}

DataObjs == {Obj("n1", "d1"), Obj("n2", "d2")}

Bodies ==
  {<<>>, <<Tok("x")>>, <<Tok("null")>>}
    \cup {<<Tok("[")>> \o items \o <<Tok("]")>> : items \in SeqsUpTo(DataObjs, MaxData)}

\* what GenerateContent returns with a nil error
Responses ==
  {pre \o body \o suf : pre \in {<<>>, <<Tok("~~~json")>>, <<Tok("~~~")>>},
                        body \in Bodies, suf \in {<<>>, <<Tok("~~~")>>}}

\* the errors GenerateContent returns while the context is live
ServiceErrors ==
  {<<"googleapi", "429">>, <<"RESOURCE_EXHAUSTED">>, <<"googleapi", "500">>}

ContextCanceled == <<"context", "canceled">>

\* a loop that runs one attempt too many (attempt <= maxRetries + 1)
LoopHeadOneMore(a) ==
  IF a > maxRetries + 1 THEN "after" ELSE IF a > 0 THEN "backoff" ELSE "call"

\* where the for loop goes with the counter at a: out of the loop, into the
\* backoff wait, or straight to the call
LoopHead(a) ==
  IF a > maxRetries THEN "after" ELSE IF a > 0 THEN "backoff" ELSE "call"

InitEnrich ==
  /\ epc = LoopHead(0)
  /\ eProjects \in SeqsUpTo(RawInputs, MaxRaw)
  /\ attempt = 0 /\ callLog = <<>>
  /\ response = <<>> /\ lastErr = <<>> /\ dataList = <<>> /\ eResult = <<>>
  /\ eErr = NoErr /\ ctxDone = FALSE
  /\ FilterIdle /\ FeaturedIdle /\ AuditIdle /\ SyncIdle /\ FetchIdle

\* the context is cancelled (deadline or caller) while Enrich runs
Cancel ==
  /\ epc \in {"backoff", "call"}
  /\ ~ctxDone
  /\ ctxDone' = TRUE
  /\ UNCHANGED <<epc, eProjects, attempt, callLog, response, lastErr, dataList,
                 eResult, eErr, filterVars, featuredVars, auditVars, syncVars, fetchVars>>

\* a select that may take the timer case with ctx.Done ready
TimerCaseAlways(done) == TRUE

\* the select of the backoff wait.  time.After(backoff) is made by the select
\* itself with a positive delay, so the timer is not ready when the select
\* starts, and a parked select is woken by the first of its channels to
\* become ready: the timer case is taken only if ctx.Done is not ready
TimerCase(done) == ~done

\* select: the timer case
BackoffElapsed ==
  /\ epc = "backoff"
  /\ TimerCase(ctxDone)
  /\ epc' = "call"
  /\ UNCHANGED <<eProjects, attempt, callLog, response, lastErr, dataList,
                 eResult, eErr, ctxDone, filterVars, featuredVars, auditVars, syncVars, fetchVars>>

\* select: the ctx.Done case
BackoffCancelled ==
  /\ epc = "backoff"
  /\ ctxDone
  /\ eErr' = Err("ctx", 0, ContextCanceled)
  /\ epc' = "done"
  /\ UNCHANGED <<eProjects, attempt, callLog, response, lastErr, dataList,
                 eResult, ctxDone, filterVars, featuredVars, auditVars, syncVars, fetchVars>>

\* GenerateContent returns a text and a nil error: break
CallSucceeds ==
  /\ epc = "call"
  /\ ~ctxDone
  /\ \E resp \in Responses : response' = resp
  /\ callLog' = Append(callLog, <<>>)
  /\ epc' = "after"
  /\ UNCHANGED <<eProjects, attempt, lastErr, dataList, eResult, eErr, ctxDone,
                 filterVars, featuredVars, auditVars, syncVars, fetchVars>>

\* GenerateContent returns an error (and the empty text)
CallFails ==
  /\ epc = "call"
  /\ \E text \in IF ctxDone THEN {ContextCanceled} ELSE ServiceErrors :
       /\ response' = <<>>
       /\ lastErr' = text
       /\ callLog' = Append(callLog, text)
       /\ IF ~IsRateLimit(text)
          THEN /\ eErr' = Err("gemini", 0, text)
               /\ epc' = "done"
               /\ UNCHANGED attempt
          ELSE /\ attempt' = attempt + 1
               /\ epc' = LoopHead(attempt + 1)
               /\ UNCHANGED eErr
  /\ UNCHANGED <<eProjects, dataList, eResult, ctxDone,
                 filterVars, featuredVars, auditVars, syncVars, fetchVars>>

\* after the loop: the exhaustion test, the fence strip, the parse and the
\* positional matching
AfterLoop ==
  /\ epc = "after"
  /\ epc' = "done"
  /\ IF response = <<>> /\ lastErr # <<>>
     THEN /\ eErr' = Err("retries", maxRetries, lastErr)
          /\ UNCHANGED <<dataList, eResult>>
     ELSE LET stripped == stripMarkdownFences(response) IN
          IF ~UnmarshalOk(stripped)
          THEN /\ eErr' = Err("parse", 0, <<>>)
               /\ UNCHANGED <<dataList, eResult>>
          ELSE /\ dataList' = Unmarshal(stripped)
               /\ eResult' = MatchByPosition(eProjects, Unmarshal(stripped))
               /\ UNCHANGED eErr
  /\ UNCHANGED <<eProjects, attempt, callLog, response, lastErr, ctxDone,
                 filterVars, featuredVars, auditVars, syncVars, fetchVars>>

NextEnrich ==
  \/ Cancel
  \/ BackoffElapsed
  \/ BackoffCancelled
  \/ CallSucceeds
  \/ CallFails
  \/ AfterLoop

SpecEnrich == InitEnrich /\ [][NextEnrich]_vars

\* ---------------------------------------------------- fetchDetails, run
\* the i-th entity given to fetchDetails
Entity(i) == Repo(<<"r", ToString(i)>>, FALSE, FALSE, i)

\* which entities' language and README fetches fail while the context is
\* live: none, one of each kind, all of them
FetchFailures(n) ==
  {<<{}, {}>>, <<{1}, {n}>>, <<1..n, 1..n>>}

\* a channel send that never blocks
CanAcquireAlways(n) == TRUE

\* sem <- struct{}{} proceeds while the channel holds fewer than its capacity
CanAcquire(n) == n < semSize

\* a Lock that never blocks
CanLockAlways(holder) == TRUE

\* mu.Lock proceeds while no worker holds the mutex
CanLock(holder) == holder = 0

\* a worker that leaves without receiving from sem
ReleaseNothing(n) == n

\* the deferred <-sem
Release(n) == n - 1

Workers == DOMAIN repos

InitFetch ==
  /\ \E n \in 0..MaxEntities :
       /\ repos = [i \in 1..n |-> Entity(i)]
       /\ wpc = [i \in 1..n |-> "start"]
       /\ wg = n
       /\ wRaw = [i \in 1..n |-> <<>>]
       /\ appendBuf = [i \in 1..n |-> <<>>]
       /\ \E f \in FetchFailures(n) : failLang = f[1] /\ failReadme = f[2]
  /\ dpc = "wait" /\ sem = 0 /\ mu = 0 /\ rawProjects = <<>> /\ dResult = <<>>
  /\ dCtxDone = FALSE
  /\ FilterIdle /\ FeaturedIdle /\ AuditIdle /\ EnrichIdle /\ SyncIdle

\* the context is cancelled while fetchDetails runs
FetchCancel ==
  /\ dpc = "wait"
  /\ ~dCtxDone
  /\ dCtxDone' = TRUE
  /\ UNCHANGED <<dpc, wpc, repos, sem, mu, wg, rawProjects, wRaw, appendBuf, dResult,
                 failLang, failReadme,
                 filterVars, featuredVars, auditVars, enrichVars, syncVars>>

\* worker: sem <- struct{}{}
Acquire(w) ==
  /\ wpc[w] = "start"
  /\ CanAcquire(sem)
  /\ sem' = sem + 1
  /\ wpc' = [wpc EXCEPT ![w] = "fetch"]
  /\ UNCHANGED <<dpc, repos, mu, wg, rawProjects, wRaw, appendBuf, dResult, dCtxDone,
                 failLang, failReadme,
                 filterVars, featuredVars, auditVars, enrichVars, syncVars>>

\* worker: GetRepoLanguages and GetRepoREADME return (each with an error when
\* its request fails and once the context is cancelled), ToRawProject, then
\* mu.Lock and append's read of the slice.  A worker at "fetch" holds a slot
\* and is fetching or waiting for the mutex.
FetchAndLock(w) ==
  /\ wpc[w] = "fetch"
  /\ CanLock(mu)
  /\ LET langErr == dCtxDone \/ w \in failLang
         readmeErr == dCtxDone \/ w \in failReadme
         languages == IF langErr THEN <<>> ELSE <<"Go">>
         readme == IF readmeErr THEN "" ELSE "readme"
     IN wRaw' = [wRaw EXCEPT ![w] = <<ToRawProject(repos[w], languages, readme)>>]
  /\ mu' = w
  /\ appendBuf' = [appendBuf EXCEPT ![w] = rawProjects]
  /\ wpc' = [wpc EXCEPT ![w] = "locked"]
  /\ UNCHANGED <<dpc, repos, sem, wg, rawProjects, dResult, dCtxDone,
                 failLang, failReadme,
                 filterVars, featuredVars, auditVars, enrichVars, syncVars>>

\* worker: the store of append's result, mu.Unlock, and the deferred calls
\* (<-sem, then wg.Done)
AppendUnlock(w) ==
  /\ wpc[w] = "locked"
  /\ rawProjects' = appendBuf[w] \o wRaw[w]
  /\ mu' = 0
  /\ sem' = Release(sem)
  /\ wg' = wg - 1
  /\ wRaw' = [wRaw EXCEPT ![w] = <<>>]
  /\ appendBuf' = [appendBuf EXCEPT ![w] = <<>>]
  /\ wpc' = [wpc EXCEPT ![w] = "done"]
  /\ UNCHANGED <<dpc, repos, dResult, dCtxDone, failLang, failReadme,
                 filterVars, featuredVars, auditVars, enrichVars, syncVars>>

Worker(w) == Acquire(w) \/ FetchAndLock(w) \/ AppendUnlock(w)

\* wg.Wait returns, firstErr is nil: return rawProjects, nil
FetchReturn ==
  /\ dpc = "wait"
  /\ wg = 0
  /\ dpc' = "returned"
  /\ dResult' = rawProjects
  /\ UNCHANGED <<wpc, repos, sem, mu, wg, rawProjects, wRaw, appendBuf, dCtxDone,
                 failLang, failReadme,
                 filterVars, featuredVars, auditVars, enrichVars, syncVars>>

NextFetch ==
  \/ FetchCancel
  \/ \E w \in Workers : Worker(w)
  \/ FetchReturn

SpecFetch == InitFetch /\ [][NextFetch]_vars

\* fetchDetails with every request answered while the context is live.  The
\* scheduler runs a goroutine that can run: while some worker can take a
\* step, a worker's step is taken, and so is the caller's return
InitFetchLive == InitFetch /\ failLang = {} /\ failReadme = {}

SpecFetchLive ==
  /\ InitFetchLive /\ [][NextFetch]_vars
  /\ WF_vars(\E w \in Workers : Worker(w))
  /\ WF_vars(FetchReturn)

\* ------------------------------------------------- the sync command, run
Runs == {1, 2}

cfgUsername == <<"a", "b">>

\* what GitHub lists: a tie of timestamps, distinct timestamps with the
\* profile repository, a single repository, nothing eligible
Upstreams ==
  {<<Repo(<<"a">>, FALSE, FALSE, 1), Repo(<<"b">>, FALSE, FALSE, 1)>>,
   <<Repo(<<"a">>, FALSE, FALSE, 1), Repo(<<"A", "b">>, FALSE, FALSE, 2),
     Repo(<<"b">>, FALSE, FALSE, 2)>>,
   <<Repo(<<"b">>, FALSE, FALSE, 1)>>,
   <<Repo(<<"b">>, TRUE, FALSE, 1)>>}

\* a project an earlier sync left in the store
OldProject == ToJSON(Project("Old", <<"o">>, "d", HTMLURLOf(<<"o">>), 0))

\* the content field of the entry before the runs; absent in the first
StoredContents ==
  {LocaleWrapped([l \in {"en-US"} |-> ListValue(<<OldProject>>)]),
   LocaleWrapped([l \in {"de-DE", "es"} |->
                    IF l = "es" THEN ListValue(<<>>) ELSE ListValue(<<OldProject>>)]),
   LocaleWrapped([l \in {"en-US"} |-> NotAList]),
   NotWrapped}

OtherFields == [k \in {"title", "sectionId"} |-> IF k = "title" THEN "Projects" ELSE "projects"]

WithContent(c) ==
  [k \in {"title", "sectionId", "content"} |-> IF k = "content" THEN c ELSE OtherFields[k]]

StoredEntries ==
  {[ID |-> "e1", Version |-> 1, PublishedVersion |-> 0, Fields |-> f] :
     f \in {OtherFields} \cup {WithContent(c) : c \in StoredContents}}

NoBuildLog == [EntryID |-> "", Version |-> 0, Entries |-> <<>>]

StoredBuildLogs ==
  {NoBuildLog,
   [EntryID |-> "bl", Version |-> 1,
    Entries |-> <<BuildLogEntry(serviceName, 1, 0, 0, "success"),
                  BuildLogEntry("cv-sync", 2, 0, 0, "success"),
                  BuildLogEntry(serviceName, 3, 0, 0, "success"),
                  BuildLogEntry(serviceName, 4, 0, 0, "success")>>]}

\* time.Now() of a run's recordBuildLog, later than every stored entry
Now(r) == 100 + r

LogEntry(r) ==
  BuildLogEntry(serviceName, Now(r), run[r].stats.NewAdded, run[r].stats.Total,
                run[r].stats.Status)

RunStart ==
  [pc |-> "list", filtered |-> <<>>, fetched |-> {}, rawProjects |-> <<>>,
   projects |-> <<>>, result |-> NilResult(NoErr), newVersion |-> 0,
   stats |-> NoStats, runErr |-> NoErr, buildLogResult |-> NoBuildLog,
   buildLogVersion |-> 0, cmdErr |-> NoErr]

ObsStart ==
  [calls |-> <<>>, failed |-> "", getStatus |-> 0, queried |-> FALSE,
   queryStatus |-> 0, resolved |-> FALSE, readFields |-> <<>>, readVersion |-> 0,
   putFields |-> <<>>, putVersion |-> 0, putStatus |-> 0, pubID |-> "", pubVersion |-> 0, complete |-> FALSE,
   synced |-> NotWrapped, auditErr |-> NoErr, logged |-> FALSE]

InitSync ==
  /\ upstream \in Upstreams
  /\ cfgEntryID \in {"e1", "projects"}
  /\ entry \in StoredEntries
  /\ buildLog \in StoredBuildLogs
  /\ run = [r \in Runs |-> RunStart]
  /\ obs = [r \in Runs |-> ObsStart]
  /\ lastWriter = 0
  /\ FilterIdle /\ FeaturedIdle /\ AuditIdle /\ EnrichIdle /\ FetchIdle

\* Run returns err from a stage (wrapped) or goes on to the next stage;
\* RunE wraps Run's error and returns it
Returned(rn, next, err, prefix) ==
  [rn EXCEPT !.pc = StageAfter(next, err),
             !.runErr = IF err = NoErr THEN NoErr ELSE Wrap(prefix, err),
             !.cmdErr = IF err = NoErr THEN NoErr ELSE Wrap("sync", Wrap(prefix, err))]

Called(ob, stage, err) ==
  [ob EXCEPT !.calls = Append(@, stage),
             !.failed = IF err = NoErr THEN @ ELSE stage]

\* no other run of the command is in progress
Alone(r) == \A q \in Runs \ {r} : run[q].pc \in {"list", "gone"}

\* Run, steps 1 and 2: ListRepos, FilterRepos and the empty short-circuit
ListRepos(r) ==
  /\ run[r].pc = "list"
  /\ \E ok \in BOOLEAN :
       LET err == IF ok THEN NoErr ELSE Err("github", 0, <<>>)
           fl == IF ok THEN FilterRepos(upstream, cfgUsername) ELSE <<>>
           empty == ok /\ ShortCircuit(fl)
           rn == Returned(run[r], IF empty THEN "auditGet" ELSE "fetch", err, "list repos")
       IN /\ run' = [run EXCEPT ![r] =
                       [rn EXCEPT !.filtered = fl,
                                  !.stats = IF empty THEN SyncStats(0, 0, "success") ELSE @]]
          /\ obs' = [obs EXCEPT ![r] = Called(@, "list", err)]
  /\ UNCHANGED <<upstream, cfgEntryID, entry, buildLog, lastWriter,
                 filterVars, featuredVars, auditVars, enrichVars, fetchVars>>

ListReposAlone(r) == Alone(r) /\ ListRepos(r)

\* fetchDetails, one worker: both fetches (a failure leaves the attribute
\* empty), ToRawProject, and the append under the mutex
FetchWorker(r) ==
  /\ run[r].pc = "fetch"
  /\ \E i \in DOMAIN run[r].filtered \ run[r].fetched :
     \E langOk \in BOOLEAN, readmeOk \in BOOLEAN :
       LET raw == ToRawProject(run[r].filtered[i],
                               IF langOk THEN <<"Go">> ELSE <<>>,
                               IF readmeOk THEN "readme" ELSE "")
       IN run' = [run EXCEPT ![r].rawProjects = Append(@, raw),
                             ![r].fetched = @ \cup {i}]
  /\ UNCHANGED <<upstream, cfgEntryID, entry, buildLog, obs, lastWriter,
                 filterVars, featuredVars, auditVars, enrichVars, fetchVars>>

\* fetchDetails: wg.Wait returns, firstErr is nil; the workers are gone and
\* filtered is not read again
FetchWait(r) ==
  /\ run[r].pc = "fetch"
  /\ run[r].fetched = DOMAIN run[r].filtered
  /\ run' = [run EXCEPT ![r] =
               [Returned(run[r], "enrich", NoErr, "fetch details") EXCEPT
                  !.filtered = <<>>, !.fetched = {}]]
  /\ obs' = [obs EXCEPT ![r] = Called(@, "fetch", NoErr)]
  /\ UNCHANGED <<upstream, cfgEntryID, entry, buildLog, lastWriter,
                 filterVars, featuredVars, auditVars, enrichVars, fetchVars>>

\* Run, steps 4 and 5: Enrich fails (m = -1) or matches the first m objects
\* of the response, then ApplyFeatured selects; rawProjects is not read again
EnrichAndSelect(r) ==
  /\ run[r].pc = "enrich"
  /\ \E m \in -1..Len(run[r].rawProjects) :
       LET err == IF m = -1 THEN Err("gemini", 0, <<>>) ELSE NoErr
           raws == run[r].rawProjects
           enriched == MatchByPosition(raws, SubSeq(GeneratedFor(raws), 1, m))
       IN /\ run' = [run EXCEPT ![r] =
                       [Returned(run[r], "get", err, "enrich") EXCEPT
                          !.projects = ApplyFeatured(enriched, cfgMaxFeatured, cfgMaxTotal),
                          !.rawProjects = <<>>]]
          /\ obs' = [obs EXCEPT ![r] =
                       [Called(obs[r], "enrich", err) EXCEPT
                          !.complete = (m = Len(raws))]]
  /\ UNCHANGED <<upstream, cfgEntryID, entry, buildLog, lastWriter,
                 filterVars, featuredVars, auditVars, enrichVars, fetchVars>>

\* GetProjects: GetEntry by id, on any error the query by sectionId, then
\* the decoding of the content field
GetProjects(r) ==
  /\ run[r].pc = "get"
  /\ \E getStatus \in GetEntryStatuses(entry, cfgEntryID), queryStatus \in QueryStatuses :
       LET rs == ResolveEntry(entry, cfgEntryID, getStatus, queryStatus)
       IN \E res \in IF rs.found THEN GetProjectsFrom(entry) ELSE {NilResult(rs.err)} :
            /\ run' = [run EXCEPT ![r] =
                         [Returned(run[r], "update", res.err, "get projects") EXCEPT
                            !.result = res]]
            /\ obs' = [obs EXCEPT ![r] =
                         [Called(obs[r], "get", res.err) EXCEPT
                            !.getStatus = getStatus,
                            !.queried = rs.queried,
                            !.queryStatus = IF rs.queried THEN queryStatus ELSE 0,
                            !.resolved = rs.found,
                            !.readFields = IF rs.found THEN entry.Fields ELSE @,
                            !.readVersion = IF rs.found THEN entry.Version ELSE @]]
  /\ UNCHANGED <<upstream, cfgEntryID, entry, buildLog, lastWriter,
                 filterVars, featuredVars, auditVars, enrichVars, fetchVars>>

\* UpdateProjects: the conditional PUT and the store's answer (status 0:
\* the request did not get through)
UpdateProjects(r) ==
  /\ run[r].pc = "update"
  /\ \E netOk \in BOOLEAN :
       LET res == run[r].result
           fields == UpdateFields(res, run[r].projects)
           header == VersionHeader(res, entry)
           status == IF netOk THEN PutStatus(entry, header) ELSE 0
           err == IF status = 200 THEN NoErr ELSE Err("CMA update failed", status, <<>>)
           stored == IF netOk THEN PutEntry(entry, fields, header) ELSE entry
       IN /\ entry' = stored
          /\ run' = [run EXCEPT ![r] =
                       [Returned(run[r], "publish", err, "update projects") EXCEPT
                          !.newVersion = IF status = 200 THEN stored.Version ELSE 0]]
          /\ obs' = [obs EXCEPT ![r] =
                       [Called(obs[r], "update", err) EXCEPT
                          !.putFields = fields, !.putVersion = header,
                          !.putStatus = status]]
          /\ lastWriter' = IF status = 200 THEN r ELSE lastWriter
  /\ UNCHANGED <<upstream, cfgEntryID, buildLog,
                 filterVars, featuredVars, auditVars, enrichVars, fetchVars>>

\* PublishEntry with the resolved id and the version UpdateProjects returned,
\* then the counts of a successful Run
PublishEntry(r) ==
  /\ run[r].pc = "publish"
  /\ \E netOk \in BOOLEAN :
       LET id == run[r].result.EntryID
           version == PublishVersion(run[r].result, run[r].newVersion)
           status == IF netOk THEN PublishStatus(entry, id, version) ELSE 0
           err == IF status = 200 THEN NoErr ELSE Err("publish failed", status, <<>>)
           total == Len(run[r].projects)
       IN /\ entry' = IF netOk THEN PublishedEntry(entry, id, version) ELSE entry
          /\ run' = [run EXCEPT ![r] =
                       [Returned(run[r], "auditGet", err, "publish") EXCEPT
                          !.stats = IF status = 200
                                    THEN SyncStats(CountDelta(total, Len(run[r].result.Projects)),
                                                   total, "success")
                                    ELSE @]]
          /\ obs' = [obs EXCEPT ![r] =
                       [Called(obs[r], "publish", err) EXCEPT
                          !.pubID = id, !.pubVersion = version,
                          !.synced = IF status = 200 /\ "content" \in DOMAIN entry.Fields
                                     THEN entry.Fields["content"] ELSE @]]
  /\ UNCHANGED <<upstream, cfgEntryID, buildLog, lastWriter,
                 filterVars, featuredVars, auditVars, enrichVars, fetchVars>>

\* recordBuildLog: GetBuildLog; on an error the recording returns
GetBuildLog(r) ==
  /\ run[r].pc = "auditGet"
  /\ \E netOk \in BOOLEAN :
       LET err == IF netOk THEN NoErr ELSE Err("failed to fetch build log", 0, <<>>)
       IN /\ run' = [run EXCEPT ![r].buildLogResult = IF netOk THEN buildLog ELSE @,
                                ![r].pc = IF netOk THEN "auditWrite" ELSE "exit",
                                ![r].cmdErr = IF netOk THEN @ ELSE RunEReturn(err)]
          /\ obs' = [obs EXCEPT ![r].calls = Append(@, "auditGet"),
                                ![r].auditErr = err]
  /\ UNCHANGED <<upstream, cfgEntryID, entry, buildLog, lastWriter,
                 filterVars, featuredVars, auditVars, enrichVars, fetchVars>>

\* recordBuildLog: CreateBuildLog when no entry was found, else the
\* conditional UpdateBuildLog
WriteBuildLog(r) ==
  /\ run[r].pc = "auditWrite"
  /\ \E netOk \in BOOLEAN :
       LET blr == run[r].buildLogResult
           all == AllLogEntries(blr.Entries, LogEntry(r))
           create == blr.EntryID = ""
           ok == netOk /\ IF create THEN buildLog.EntryID = ""
                          ELSE blr.Version = buildLog.Version
           err == IF ok THEN NoErr
                  ELSE IF create THEN Err("failed to create build log", 0, <<>>)
                  ELSE Err("failed to update build log", 0, <<>>)
           stored == IF ~ok THEN buildLog
                     ELSE IF create THEN [EntryID |-> "bl", Version |-> 1, Entries |-> all]
                     ELSE [buildLog EXCEPT !.Version = @ + 1, !.Entries = all]
       IN /\ buildLog' = stored
          /\ run' = [run EXCEPT ![r].buildLogVersion = IF ok THEN stored.Version ELSE @,
                                ![r].pc = IF ok THEN "auditPublish" ELSE "exit",
                                ![r].cmdErr = IF ok THEN @ ELSE RunEReturn(err)]
          /\ obs' = [obs EXCEPT ![r].calls = Append(@, "auditWrite"),
                                ![r].auditErr = err,
                                ![r].logged = ok]
  /\ UNCHANGED <<upstream, cfgEntryID, entry, lastWriter,
                 filterVars, featuredVars, auditVars, enrichVars, fetchVars>>

\* recordBuildLog: PublishEntry of the build log; RunE returns nil
PublishBuildLog(r) ==
  /\ run[r].pc = "auditPublish"
  /\ \E netOk \in BOOLEAN :
       LET ok == netOk /\ run[r].buildLogVersion = buildLog.Version
           err == IF ok THEN NoErr ELSE Err("failed to publish build log", 0, <<>>)
       IN /\ buildLog' = IF ok THEN [buildLog EXCEPT !.Version = @ + 1] ELSE buildLog
          /\ run' = [run EXCEPT ![r].pc = "exit", ![r].cmdErr = RunEReturn(err)]
          /\ obs' = [obs EXCEPT ![r].calls = Append(@, "auditPublish"),
                                ![r].auditErr = err]
  /\ UNCHANGED <<upstream, cfgEntryID, entry, lastWriter,
                 filterVars, featuredVars, auditVars, enrichVars, fetchVars>>

\* the process of a finished run exits: its memory is gone.  What stays is
\* what the run read from and sent to the projects entry, and where it failed.
ProcessExit(r) ==
  /\ run[r].pc = "exit"
  /\ run' = [run EXCEPT ![r] = [RunStart EXCEPT !.pc = "gone"]]
  /\ obs' = [obs EXCEPT ![r] =
               [obs[r] EXCEPT !.calls = <<>>, !.getStatus = 0, !.queried = FALSE,
                              !.queryStatus = 0, !.resolved = FALSE,
                              !.readFields = <<>>, !.pubID = "",
                              !.pubVersion = 0, !.auditErr = NoErr, !.logged = FALSE]]
  /\ UNCHANGED <<upstream, cfgEntryID, entry, buildLog, lastWriter,
                 filterVars, featuredVars, auditVars, enrichVars, fetchVars>>

AfterList(r) ==
  \/ FetchWorker(r)
  \/ FetchWait(r)
  \/ EnrichAndSelect(r)
  \/ GetProjects(r)
  \/ UpdateProjects(r)
  \/ PublishEntry(r)
  \/ GetBuildLog(r)
  \/ WriteBuildLog(r)
  \/ PublishBuildLog(r)
  \/ ProcessExit(r)

\* the command run twice, one run after the other
Next == \E r \in Runs : ListReposAlone(r) \/ AfterList(r)

Spec == InitSync /\ [][Next]_vars

\* two runs of the command at the same time, on an entry they can read
InitRace ==
  /\ InitSync
  /\ cfgEntryID = entry.ID
  /\ \E res \in GetProjectsFrom(entry) : res.err = NoErr

NextRace == \E r \in Runs : ListRepos(r) \/ AfterList(r)

SpecRace == InitRace /\ [][NextRace]_vars

\* ================================================================ claims

\* two names are equal up to the case of their letters
SameLetter(c, d) == c = d \/ {c, d} = {"a", "A"} \/ {c, d} = {"b", "B"}
EqualFold(s, t) == Len(s) = Len(t) /\ \A i \in DOMAIN s : SameLetter(s[i], t[i])

Eligible(r, user) == ~r.Fork /\ ~r.Archived /\ ~EqualFold(r.Name, user)
EligibleIdx == {i \in DOMAIN fRepos : Eligible(fRepos[i], fUsername)}
\* the k-th eligible index of fRepos, in input order
NthEligible(k) ==
  CHOOSE i \in EligibleIdx : Cardinality({j \in EligibleIdx : j <= i}) = k

\* C5: FilterRepos returns exactly the input entities that are neither fork
\* nor archived and whose name differs from the owner identity up to case,
\* in input order; no fork, archived or self-profile entity is emitted.
C5_FilterExact ==
  fpc = "ret" =>
    /\ Len(fResult) = Cardinality(EligibleIdx)
    /\ \A k \in DOMAIN fResult : fResult[k] = fRepos[NthEligible(k)]
    /\ \A k \in DOMAIN fResult :
         /\ ~fResult[k].Fork
         /\ ~fResult[k].Archived
         /\ ~EqualFold(fResult[k].Name, fUsername)

\* a call that dropped the self-profile entity spelled in another case, and
\* kept an entity that follows it
C5_Witness ==
  /\ fpc = "ret"
  /\ \E i, j \in DOMAIN fRepos :
       /\ i < j
       /\ ~fRepos[i].Fork /\ ~fRepos[i].Archived
       /\ fRepos[i].Name # fUsername /\ EqualFold(fRepos[i].Name, fUsername)
       /\ Eligible(fRepos[j], fUsername)
  /\ Len(fResult) >= 1

\* C4: for 0 <= K <= N, ApplyFeatured returns min(N_raw, N) entries sorted
\* descending by last-activity timestamp, those at indices [0, K) featured
\* and no others, so exactly min(K, length) entries are featured.
C4_FeaturedShape ==
  (hpc = "ret" /\ maxFeatured <= maxTotal) =>
    /\ Len(hResult) = Min(Len(hProjects), maxTotal)
    /\ \A i, j \in DOMAIN hResult :
         i < j => hResult[i].PushedAt >= hResult[j].PushedAt
    /\ \A i \in DOMAIN hResult : hResult[i].Featured <=> (i <= maxFeatured)
    /\ Cardinality({i \in DOMAIN hResult : hResult[i].Featured})
         = Min(maxFeatured, Len(hResult))
    \* the output is drawn from the input: the most recent entries survive
    /\ \E f \in [DOMAIN hResult -> DOMAIN hProjects] :
         /\ \A i, j \in DOMAIN hResult : i # j => f[i] # f[j]
         /\ \A i \in DOMAIN hResult :
              hResult[i] = [hProjects[f[i]] EXCEPT !.Featured = hResult[i].Featured]
         /\ \A p \in DOMAIN hProjects :
              (\A i \in DOMAIN hResult : f[i] # p) =>
                \A i \in DOMAIN hResult : hResult[i].PushedAt >= hProjects[p].PushedAt

\* a call that had to reorder, truncate, and flag some but not all entries
C4_Witness ==
  /\ hpc = "ret"
  /\ 0 < maxFeatured /\ maxFeatured < maxTotal
  /\ Len(hProjects) > maxTotal
  /\ \E i \in DOMAIN hProjects : i < Len(hProjects)
       /\ hProjects[i].PushedAt < hProjects[i + 1].PushedAt
  /\ \E i \in DOMAIN hResult : ~hResult[i].Featured

\* ---- Enrich
\* the JSON objects of the response text, in order
ResponseObjects == SelectSeq(response, LAMBDA tok : tok.t = "{}")

\* C2: for n inputs and a successfully parsed response array of m entries,
\* Enrich returns exactly min(m, n) entities; output[i] carries the slug, URL
\* and last-activity timestamp of input[i] and the generated fields of
\* response[i]; inputs at index >= m are dropped without an error and
\* response entries at index >= n are ignored.
C2_PositionalMatch ==
  (epc = "done" /\ eErr = NoErr) =>
    LET n == Len(eProjects)
        m == Len(ResponseObjects)
    IN /\ Len(dataList) = m
       /\ Len(eResult) = Min(m, n)
       /\ \A i \in 1..Min(m, n) :
            /\ eResult[i].Slug = eProjects[i].Slug
            /\ eResult[i].GithubURL = eProjects[i].GitHubURL
            /\ eResult[i].PushedAt = eProjects[i].PushedAt
            /\ eResult[i].Name = ResponseObjects[i].Name
            /\ eResult[i].Description = ResponseObjects[i].Description
            /\ eResult[i].Featured = FALSE

\* a successful call whose response is shorter than the input: the second
\* input is dropped and the first one is matched
C2_Witness ==
  /\ epc = "done" /\ eErr = NoErr
  /\ Len(eProjects) = 2 /\ Len(ResponseObjects) = 1
  /\ Len(eResult) = 1 /\ eResult[1].Slug = eProjects[1].Slug

RateLimited(text) == "429" \in Range(text) \/ "RESOURCE_EXHAUSTED" \in Range(text)
AllCallsRateLimited ==
  callLog # <<>> /\ \A i \in DOMAIN callLog : RateLimited(callLog[i])

\* C3: under a persistent rate-limit error Enrich makes at most
\* maxRetries + 1 calls, never one more, and after the last of them fails
\* with the error that carries the retry count.
C3_RetryBound ==
  /\ Len(callLog) <= maxRetries + 1
  /\ (AllCallsRateLimited /\ Len(callLog) = maxRetries + 1) =>
       /\ epc \in {"after", "done"}
       /\ epc = "done" =>
            eErr = Err("retries", maxRetries, callLog[Len(callLog)])
  /\ (AllCallsRateLimited /\ epc = "done") =>
       \/ /\ eErr.kind = "retries" /\ eErr.n = maxRetries
          /\ Len(callLog) = maxRetries + 1
       \/ eErr.kind = "ctx" /\ ctxDone

\* four rate-limited calls, then the retries error
C3_Witness ==
  /\ epc = "done"
  /\ AllCallsRateLimited /\ Len(callLog) = maxRetries + 1
  /\ eErr.kind = "retries" /\ eErr.n = maxRetries

\* ---- recordBuildLog
Own(e) == e.Service = serviceName
OwnIdx == {i \in DOMAIN aEntries : Own(aEntries[i])}
OtherIdx == DOMAIN aEntries \ OwnIdx
\* the k-th index of the index set S, in list order
Nth(S, k) == CHOOSE i \in S : Cardinality({j \in S : j <= i}) = k

\* C6: the list written contains every entry of other services unchanged
\* and in their order, at most the 2 most recent prior entries of this
\* service, and the new entry; 5 own and 3 others give 6 entries.
C6_AuditCap ==
  apc = "ret" =>
    LET nOther == Cardinality(OtherIdx)
        nOwn == Cardinality(OwnIdx)
        kept == Min(nOwn, 2)
    IN /\ Len(allLogEntries) = nOther + kept + 1
       /\ \A k \in 1..nOther : allLogEntries[k] = aEntries[Nth(OtherIdx, k)]
       /\ \A k \in 1..kept :
            allLogEntries[nOther + k] = aEntries[Nth(OwnIdx, nOwn - kept + k)]
       /\ allLogEntries[nOther + kept + 1] = aLogEntry
       /\ (nOwn = 5 /\ nOther = 3) => Len(allLogEntries) = 6

\* the case of the claim: 5 own entries and 3 of others, interleaved
C6_Witness ==
  /\ apc = "ret"
  /\ Cardinality(OwnIdx) = 5 /\ Cardinality(OtherIdx) = 3
  /\ Own(aEntries[1]) /\ ~Own(aEntries[2]) /\ Own(aEntries[3])
  /\ Len(allLogEntries) = 6

\* ---- the sync command
Issued(r, stage) == stage \in Range(obs[r].calls)

\* the content field that holds exactly the collection ps
ContentOf(ps) == LocaleWrapped([l \in {"en-US"} |-> ListValue(MarshalProjects(ps))])

\* C1: when two runs read the entry at the same version and both issue
\* UpdateProjects, the store accepts at most one of the writes; the other
\* UpdateProjects returns an error that carries the conflict status, that
\* run aborts without publishing, and the stored fields are in full those of
\* the last successful writer.
C1_ConflictingWrites ==
  /\ \A r \in Runs, q \in Runs :
       (r # q /\ obs[r].putVersion # 0 /\ obs[q].putVersion # 0
          /\ obs[r].readVersion = obs[q].readVersion) =>
         ~(obs[r].putStatus = 200 /\ obs[q].putStatus = 200)
  /\ \A r \in Runs :
       (Issued(r, "update") /\ obs[r].putStatus # 200) =>
         /\ run[r].pc = "exit"
         /\ run[r].cmdErr # NoErr /\ run[r].cmdErr.n = obs[r].putStatus
         /\ obs[r].putStatus = 0 \/ obs[r].putStatus = 409
         /\ ~Issued(r, "publish")
  /\ lastWriter # 0 =>
       /\ entry.Fields = obs[lastWriter].putFields
       /\ run[lastWriter].pc # "gone" =>
            entry.Fields["content"] = ContentOf(run[lastWriter].projects)

\* both runs read version 1 and sent different collections; one was written,
\* the other answered with 409
C1_Witness ==
  \E r \in Runs, q \in Runs :
    /\ r # q
    /\ obs[r].readVersion = obs[q].readVersion
    /\ obs[r].putStatus = 200 /\ obs[q].putStatus = 409
    /\ obs[r].putFields # obs[q].putFields
    /\ run[q].pc = "exit" /\ lastWriter = r

\* the main chain of a run succeeded through publish
Published(r) == Issued(r, "publish") /\ obs[r].failed = ""

\* C7: once the main chain through publish has succeeded, the command
\* reports success whether or not the audit read, write or publish fails.
C7_AuditNonFatal ==
  \A r \in Runs :
    (run[r].pc = "exit" /\ Published(r)) => run[r].cmdErr = NoErr

\* a run that published and then failed to write the build log
C7_Witness ==
  \E r \in Runs :
    /\ run[r].pc = "exit" /\ Published(r)
    /\ Issued(r, "auditWrite") /\ obs[r].auditErr # NoErr
    /\ run[r].cmdErr = NoErr

\* a run synced: it published the enrichment of every entity
Synced(r) == obs[r].complete /\ obs[r].failed = "" /\ obs[r].synced # NotWrapped

\* C8: two runs of the pipeline on the same upstream data and the same
\* per-entity enrichment leave the same entity collection in the store,
\* whatever the completion order of the workers and the ties of timestamps.
C8_Idempotent ==
  \A r \in Runs, q \in Runs :
    (Synced(r) /\ Synced(q)) => obs[r].synced = obs[q].synced

\* the same, for upstream data without a tie among the timestamps
NoTies ==
  \A i \in DOMAIN upstream, j \in DOMAIN upstream :
    i # j => upstream[i].PushedAt # upstream[j].PushedAt

C8_IdempotentWithoutTies == NoTies => C8_Idempotent

MainChain == <<"list", "fetch", "enrich", "get", "update", "publish">>

\* C9: when a stage of the main chain fails, Run returns an error, no later
\* stage is invoked, and no audit entry is appended for the run.
C9_FailureAborts ==
  \A r \in Runs :
    obs[r].failed # "" =>
      /\ run[r].pc \in {"exit", "gone"}
      /\ \A e \in Range(buildLog.Entries) : e.Timestamp # Now(r)
      /\ run[r].pc = "exit" =>
           /\ run[r].runErr # NoErr /\ run[r].cmdErr # NoErr
           /\ obs[r].calls = SubSeq(MainChain, 1, Len(obs[r].calls))
           /\ obs[r].calls[Len(obs[r].calls)] = obs[r].failed
           /\ ~obs[r].logged

\* a run whose update failed: nothing after it
C9_Witness ==
  \E r \in Runs :
    /\ run[r].pc = "exit" /\ obs[r].failed = "update"
    /\ obs[r].calls = SubSeq(MainChain, 1, 5)

\* C10: the field map UpdateProjects writes has every field of the document
\* GetProjects read, other than content, with its value unchanged; content
\* holds the new collection; no other field is added, removed or altered.
C10_FieldsRoundTrip ==
  \A r \in Runs :
    Issued(r, "update") =>
      LET sent == obs[r].putFields
          read == obs[r].readFields
      IN /\ DOMAIN sent = DOMAIN read \cup {"content"}
         /\ \A k \in DOMAIN read \ {"content"} : sent[k] = read[k]
         /\ sent["content"] = ContentOf(run[r].projects)
         /\ obs[r].putStatus = 200 => entry.Fields = sent

\* an accepted update of a document that had other fields and a content
\* field holding another collection
C10_Witness ==
  \E r \in Runs :
    /\ Issued(r, "update") /\ obs[r].putStatus = 200
    /\ {"title", "sectionId", "content"} \subseteq DOMAIN obs[r].readFields
    /\ obs[r].readFields["content"] # obs[r].putFields["content"]
    /\ Len(run[r].projects) = 2

\* ---- GetProjects: the lookup
NotFoundErr ==
  Err("get projects entry", 0, <<"no siteSection entry found">>)

\* what GetProjects returned to the run whose last call it is
Lookup(r) == Issued(r, "get") /\ run[r].pc \in {"update", "exit"} /\ ~Issued(r, "update")

\* C11: GetProjects makes the section-id query when, and only when, the
\* lookup by id answered not-found (404); a match of the query is the entry
\* it goes on with; when the id is not found and the query has no match it
\* returns a not-found error and a nil result.
C11_FallbackOnlyOnNotFound ==
  \A r \in Runs :
    Lookup(r) =>
      /\ obs[r].queried <=> obs[r].getStatus = 404
      /\ obs[r].queried /\ obs[r].resolved =>
            /\ obs[r].queryStatus = 200
            /\ entry.Fields["sectionId"] = cfgEntryID
            /\ ~run[r].result.isNil => run[r].result.EntryID = entry.ID
      /\ ~obs[r].resolved =>
            /\ run[r].result.isNil
            /\ run[r].result.err # NoErr
            /\ obs[r].getStatus = 404 /\ obs[r].queryStatus = 200 =>
                  run[r].result.err = NotFoundErr

\* what the code does: the query follows every failure of the lookup by id
C11_FallbackOnAnyFailure ==
  \A r \in Runs :
    Lookup(r) =>
      /\ obs[r].queried <=> obs[r].getStatus # 200
      /\ obs[r].queried /\ obs[r].resolved =>
            /\ obs[r].queryStatus = 200
            /\ entry.Fields["sectionId"] = cfgEntryID
            /\ ~run[r].result.isNil => run[r].result.EntryID = entry.ID
      /\ ~obs[r].resolved =>
            /\ run[r].result.isNil
            /\ run[r].result.err # NoErr
            /\ obs[r].getStatus = 404 /\ obs[r].queryStatus = 200 =>
                  run[r].result.err = NotFoundErr

\* ---- Enrich: cancellation and fatal errors
\* C12: when the context is cancelled while Enrich waits in a backoff, the
\* next step of Enrich is its return with the cancellation as the error: no
\* call is added and no result is produced.
C12_CancelInBackoff ==
  [][(epc = "backoff" /\ ctxDone) =>
       /\ epc' = "done"
       /\ eErr' = Err("ctx", 0, ContextCanceled)
       /\ callLog' = callLog
       /\ eResult' = <<>>]_vars

C12_Witness ==
  /\ epc = "done" /\ ctxDone
  /\ eErr = Err("ctx", 0, ContextCanceled)
  /\ Len(callLog) = 2
  /\ \A i \in DOMAIN callLog : RateLimited(callLog[i])

\* ---- fetchDetails
Holding == {w \in Workers : wpc[w] \in {"fetch", "locked"}}

\* C13: at every moment of fetchDetails at most 5 workers hold a slot of the
\* concurrency limit (are between their send on sem and their receive).
C13_AtMostFive == Cardinality(Holding) <= 5 /\ sem <= 5

C13_Witness == Len(repos) > 5 /\ Cardinality(Holding) = 5 /\ \E w \in Workers : wpc[w] = "start"

\* the positions of the result that hold the entity of input i
ResultOf(i) == {k \in DOMAIN dResult : dResult[k].Name = repos[i].Name}

\* C14: when fetchDetails returns, the result holds exactly one RawProject
\* for each input entity and nothing else; it carries the entity's own
\* attributes, and a failed fetch shows only as an empty Languages or
\* ReadmeRaw (a fetch that did not fail filled its attribute).
C14_OnePerEntity ==
  dpc = "returned" =>
    /\ Len(dResult) = Len(repos)
    /\ \A i \in Workers :
         /\ Cardinality(ResultOf(i)) = 1
         /\ \A k \in ResultOf(i) :
              /\ dResult[k].Slug = repos[i].Name
              /\ dResult[k].GitHubURL = repos[i].HTMLURL
              /\ dResult[k].PushedAt = repos[i].PushedAt
              /\ dResult[k].Languages \in {<<>>, <<"Go">>}
              /\ dResult[k].ReadmeRaw \in {"", "readme"}
              /\ i \in failLang => dResult[k].Languages = <<>>
              /\ i \in failReadme => dResult[k].ReadmeRaw = ""
              /\ i \notin failLang /\ ~dCtxDone => dResult[k].Languages = <<"Go">>
              /\ i \notin failReadme /\ ~dCtxDone => dResult[k].ReadmeRaw = "readme"

C14_Witness ==
  /\ dpc = "returned" /\ Len(dResult) > 5 /\ ~dCtxDone
  /\ failLang = {1} /\ failReadme = {Len(repos)}
  /\ dResult[1].Name # repos[1].Name

\* C19: fetchDetails returns only when every worker is done, and it always
\* eventually returns, whatever the number of entities and whenever the
\* context is cancelled.
C19_ReturnsAfterAll ==
  /\ [](dpc = "returned" => \A w \in Workers : wpc[w] = "done")
  /\ <>(dpc = "returned")

\* a return with more entities than slots where no fetch had completed when
\* the context was cancelled: some worker was still waiting for a slot
C19_Witness ==
  /\ dpc = "returned" /\ Len(repos) > 5 /\ dCtxDone
  /\ \A k \in DOMAIN dResult : dResult[k].Languages = <<>> /\ dResult[k].ReadmeRaw = ""

\* the calls of the service that returned an error
FailedCalls == {i \in DOMAIN callLog : callLog[i] # <<>>}

\* C15: a call that fails with an error that is not a rate-limit error is
\* the last call, on whichever attempt it is made: Enrich has returned with
\* that error wrapped, without a result, a backoff or another call.
C15_FatalAtOnce ==
  \A i \in FailedCalls :
    ~RateLimited(callLog[i]) =>
      /\ i = Len(callLog)
      /\ epc = "done"
      /\ eErr = Err("gemini", 0, callLog[i])
      /\ eResult = <<>>

C15_Witness ==
  /\ Len(callLog) = 3
  /\ callLog[3] = <<"googleapi", "500">>
  /\ RateLimited(callLog[1]) /\ RateLimited(callLog[2])
  /\ epc = "done"

\* ---- GetProjects: the content field
NotLocaleWrapped(fields) == "content" \in DOMAIN fields /\ ~fields["content"].wrapped

NotAListOfEntities(fields) ==
  /\ "content" \in DOMAIN fields
  /\ fields["content"].wrapped
  /\ "en-US" \in DOMAIN fields["content"].locales
  /\ ~fields["content"].locales["en-US"].isList

\* GetProjects returned an error with a result that names the entry read
ErrorWithIdentity(r) ==
  /\ run[r].result.err # NoErr
  /\ ~run[r].result.isNil
  /\ run[r].result.EntryID = entry.ID
  /\ run[r].result.Version = obs[r].readVersion

\* C16: when the content field of the fetched entry cannot be decoded (it is
\* not locale-wrapped, or its locale value is not a list of entities),
\* GetProjects returns a decode error and a result carrying the entry's id
\* and version.
C16_DecodeErrorKeepsIdentity ==
  \A r \in Runs :
    Lookup(r) /\ obs[r].resolved
      /\ (NotLocaleWrapped(obs[r].readFields) \/ NotAListOfEntities(obs[r].readFields))
      => ErrorWithIdentity(r)

\* what the code does: identity and version come with the error of a field
\* that is not locale-wrapped, and a nil result with the unmarshal error
C16_NotWrappedKeepsIdentity ==
  \A r \in Runs :
    Lookup(r) /\ obs[r].resolved =>
      /\ NotLocaleWrapped(obs[r].readFields) => ErrorWithIdentity(r)
      /\ NotAListOfEntities(obs[r].readFields) =>
           run[r].result.isNil /\ run[r].result.err = Err("unmarshal projects", 0, <<>>)

\* the run read an entry that has no content field
ReadWithoutContent(r) ==
  Issued(r, "get") /\ obs[r].resolved /\ "content" \notin DOMAIN obs[r].readFields

\* C17: for an entry without a content field GetProjects returns no error
\* and a result with no projects and the entry's id, version and fields; the
\* run goes on to the update, which sends those fields with the new
\* collection, and after an accepted update to the publish.
C17_BootstrapWrite ==
  \A r \in Runs :
    ReadWithoutContent(r) =>
      /\ obs[r].failed # "get"
      /\ run[r].result =
           ProjectsResult(FALSE, <<>>, entry.ID, obs[r].readVersion,
                          obs[r].readFields, NoErr)
      /\ Lookup(r) => run[r].pc = "update"
      /\ Issued(r, "update") =>
           /\ obs[r].putVersion = obs[r].readVersion
           /\ DOMAIN obs[r].putFields = DOMAIN obs[r].readFields \cup {"content"}
           /\ obs[r].putFields["content"] = ContentOf(run[r].projects)
           /\ \A k \in DOMAIN obs[r].readFields :
                obs[r].putFields[k] = obs[r].readFields[k]
           /\ obs[r].putStatus = 200 => run[r].pc = "publish" \/ Issued(r, "publish")
      /\ Published(r) => obs[r].synced = ContentOf(run[r].projects)

C17_Witness ==
  \E r \in Runs :
    /\ ReadWithoutContent(r) /\ Published(r)
    /\ Len(run[r].projects) = 2
    /\ entry.Fields["content"] = ContentOf(run[r].projects)

\* ---- Run: update, then publish
Before(r, a, b) ==
  \E i, j \in DOMAIN obs[r].calls :
    i < j /\ obs[r].calls[i] = a /\ obs[r].calls[j] = b

\* publish is invoked after an accepted update, with the resolved id and
\* the version that update returned
PublishAfterUpdate(r) ==
  Issued(r, "publish") =>
    /\ Before(r, "update", "publish")
    /\ obs[r].putStatus = 200
    /\ obs[r].pubID = entry.ID
    /\ obs[r].pubID = run[r].result.EntryID
    /\ obs[r].pubVersion = run[r].newVersion
    /\ obs[r].pubVersion = obs[r].putVersion + 1
    /\ obs[r].pubVersion # obs[r].readVersion

NothingEligible == \A i \in DOMAIN upstream : ~Eligible(upstream[i], cfgUsername)

\* C18, as stated: in every run publish is invoked only after UpdateProjects
\* succeeded, with the id GetProjects resolved and the version UpdateProjects
\* returned (never the version read), and a run reports success only if that
\* publish succeeded.
C18_PublishThenSuccess ==
  \A r \in Runs :
    /\ PublishAfterUpdate(r)
    /\ run[r].stats.Status = "success" => Published(r)

\* C18, amended: as stated, but the run reports success only if that publish
\* succeeded or the filter left no entity (then nothing is published).
C18_PublishThenSuccessUnlessEmpty ==
  \A r \in Runs :
    /\ PublishAfterUpdate(r)
    /\ run[r].stats.Status = "success" => Published(r) \/ NothingEligible
    /\ run[r].stats.Status = "success" /\ NothingEligible => ~Issued(r, "publish")

C18_Witness ==
  \E r \in Runs :
    /\ Published(r) /\ run[r].stats.Status = "success"
    /\ cfgEntryID # entry.ID
    /\ obs[r].pubID # cfgEntryID
    /\ obs[r].readVersion > 1

\* ---- Run: one read, one write
Times(r, stage) == Cardinality({i \in DOMAIN obs[r].calls : obs[r].calls[i] = stage})

\* C20: a run makes at most one get, one update and one publish on the
\* projects entry, and a failed update (a version conflict included) is the
\* run's last call on the entry: no re-read, no second write, no publish.
C20_NoRetry ==
  \A r \in Runs :
    /\ Times(r, "get") <= 1
    /\ Times(r, "update") <= 1
    /\ Times(r, "publish") <= 1
    /\ obs[r].failed = "update" /\ Issued(r, "update") =>
         /\ obs[r].calls[Len(obs[r].calls)] = "update"
         /\ run[r].pc = "exit"
         /\ ~Issued(r, "publish")

C20_Witness ==
  \E r \in Runs :
    /\ obs[r].failed = "update" /\ obs[r].putStatus = 409
    /\ run[r].pc = "exit"
    /\ lastWriter # r /\ lastWriter # 0

\* ---- Run: the empty short-circuit
\* the run listed the repositories and the filter left none
FilteredToNothing(r) == Issued(r, "list") /\ obs[r].failed = "" /\ NothingEligible

\* C21: when the filter leaves no entity, Run returns the success result
\* with zero counts and calls none of fetchDetails, Enrich, GetProjects,
\* UpdateProjects and PublishEntry; the projects entry stays as it was.
C21_EmptyShortCircuit ==
  \A r \in Runs :
    FilteredToNothing(r) =>
      /\ run[r].stats = SyncStats(0, 0, "success")
      /\ run[r].runErr = NoErr
      /\ \A stage \in {"fetch", "enrich", "get", "update", "publish"} : ~Issued(r, stage)
      /\ obs[r].putStatus = 0 /\ obs[r].pubID = ""
      /\ lastWriter = 0
      /\ entry.Version = 1 /\ entry.PublishedVersion = 0
      /\ entry \in StoredEntries

C21_Witness ==
  \E r \in Runs :
    /\ FilteredToNothing(r)
    /\ upstream # <<>>
    /\ run[r].pc = "exit"
    /\ obs[r].logged
    /\ "content" \in DOMAIN entry.Fields

\* ---- Run: the counts
\* the sizes the collection read by the run can have: that of the en-US
\* value, without one that of any locale's value, 0 without a content field
ReadCounts(r) ==
  LET fields == obs[r].readFields IN
  IF "content" \notin DOMAIN fields THEN {0}
  ELSE LET locales == fields["content"].locales IN
       IF "en-US" \in DOMAIN locales THEN {Len(locales["en-US"].items)}
       ELSE {Len(locales[l].items) : l \in DOMAIN locales}

\* C22: on a successful run Total is the number of entities after selection
\* and NewAdded is Total minus the number of entities of the collection read
\* before the update, negative when that collection was larger.
C22_Counts ==
  \A r \in Runs :
    Published(r) =>
      /\ run[r].stats.Status = "success"
      /\ run[r].stats.Total = Len(run[r].projects)
      /\ run[r].stats.Total <= cfgMaxTotal
      /\ run[r].stats.NewAdded = run[r].stats.Total - Len(run[r].result.Projects)
      /\ \E n \in ReadCounts(r) : run[r].stats.NewAdded = run[r].stats.Total - n

C22_Witness ==
  \E r \in Runs :
    /\ Published(r)
    /\ run[r].stats.NewAdded < 0
    /\ run[r].stats.Total = 1
    /\ ReadCounts(r) = {2}

\* ---- Enrich: exhaustion
\* some call of the service returned without an error
SomeCallSucceeded == \E i \in DOMAIN callLog : callLog[i] = <<>>

\* C23: Enrich returns the retries-exhausted error only if all 4 attempts
\* returned a rate-limit error; a call that succeeds is the last call, and
\* Enrich then parses its response (it returns the parse error or the matched
\* list), whatever the text is and however many rate-limit errors came first.
C23_ExhaustedOnlyAfterAllAttempts ==
  /\ eErr.kind = "retries" =>
       Len(callLog) = 4 /\ \A i \in DOMAIN callLog : RateLimited(callLog[i])
  /\ SomeCallSucceeded =>
       /\ callLog[Len(callLog)] = <<>>
       /\ \A i \in DOMAIN callLog : i < Len(callLog) => RateLimited(callLog[i])
       /\ epc = "done" => eErr.kind \in {"nil", "parse"}

\* what the code does: exhaustion is also reported for a call that succeeds
\* with an empty text after a rate-limit error
C23_ExhaustedOrEmptyAfterRateLimit ==
  /\ eErr.kind = "retries" =>
       \/ Len(callLog) = 4 /\ \A i \in DOMAIN callLog : RateLimited(callLog[i])
       \/ SomeCallSucceeded /\ response = <<>> /\ Len(callLog) > 1
  /\ SomeCallSucceeded =>
       /\ callLog[Len(callLog)] = <<>>
       /\ \A i \in DOMAIN callLog : i < Len(callLog) => RateLimited(callLog[i])
       /\ epc = "done" /\ (response # <<>> \/ Len(callLog) = 1) =>
            eErr.kind \in {"nil", "parse"}

\* ---- UpdateProjects: the locale of the collection
\* the locale keys of the content field the run read
LocalesRead(r) ==
  IF "content" \in DOMAIN obs[r].readFields /\ obs[r].readFields["content"].wrapped
  THEN DOMAIN obs[r].readFields["content"].locales
  ELSE {}

\* C24: the content field UpdateProjects sends holds the en-US key alone,
\* with the new collection as its value, whatever locale keys the content
\* read held and whichever of them GetProjects took the collection from; an
\* accepted update leaves the stored content with that one key.
C24_DefaultLocaleAlone ==
  \A r \in Runs :
    Issued(r, "update") =>
      /\ obs[r].putFields["content"].wrapped
      /\ DOMAIN obs[r].putFields["content"].locales = {"en-US"}
      /\ obs[r].putFields["content"].locales["en-US"] =
           ListValue(MarshalProjects(run[r].projects))
      /\ obs[r].putStatus = 200 =>
           /\ entry.Fields["content"].wrapped
           /\ DOMAIN entry.Fields["content"].locales = {"en-US"}
           /\ entry.Fields["content"] = obs[r].putFields["content"]

C24_Witness ==
  \E r \in Runs :
    /\ Issued(r, "update") /\ obs[r].putStatus = 200
    /\ LocalesRead(r) = {"de-DE", "es"}
    /\ Len(run[r].result.Projects) = 1
    /\ DOMAIN entry.Fields["content"].locales = {"en-US"}

====
